---- MODULE Spec2Model ----
(***************************************************************************)
(* Reminder scanner (hooks/useReminders), task state (hooks/useTasks),     *)
(* IndexedDB task store (lib/database) and the notification callback of    *)
(* App.tsx, as one state machine.                                          *)
(*                                                                         *)
(* Time is in milliseconds of local wall-clock time, counted from local    *)
(* midnight of 2024-01-01.  A due_date is <<year, month, day>>, a due_time *)
(* is <<hours, minutes>>, and Null (the empty tuple) is a missing one.     *)
(***************************************************************************)
EXTENDS Integers, Sequences, FiniteSets, TLC

VARIABLES
    store,            \* IndexedDB object store 'tasks': id -> Task
    queue,            \* database calls issued and not yet settled, oldest first
    nextId,           \* the next fresh task id database.addTask generates
    tasks,            \* useTasks: the `tasks` React state
    seen,             \* the `tasks` of the last committed render (UI, effect closures)
    dirty,            \* setTasks was called since the last committed render
    mounted,          \* the React tree is mounted
    timers,           \* number of live setInterval timers of the scanner effect
    checkedTasksRef,  \* useReminders: checkedTasksRef.current
    lastCheckTimeRef, \* useReminders: lastCheckTimeRef.current
    now,              \* wall clock
    fired,            \* history: id -> number of onReminderTriggered invocations
    acks,             \* history: id -> number of updateTask(id, {reminder_shown: true}) calls
    storeFailed,      \* history: the rejected database calls, as <<id, what>>
    everShown,        \* history: ids the scanner has read with reminder_shown = true
    everCompleted,    \* history: ids the effects have read with completed = true
    lastScan,         \* how checkReminders last ended at this instant ("none": not invoked)
    budget,           \* remaining user operations
    reloads           \* history: the page reloads, as [at, unacked]

vars == <<store, queue, nextId, tasks, seen, dirty, mounted, timers,
          checkedTasksRef, lastCheckTimeRef, now, fired, acks, storeFailed,
          everShown, everCompleted, lastScan, budget, reloads>>

----------------------------------------------------------------------------
(* Bounds of the model *)

MaxTasks == 2         \* task ids; tasks added under SpecPair
PairUserOps == 2      \* completion toggles and deletions under SpecPair
SyncUserOps == 1      \* completion toggles and deletions under SpecSync
SoloTasks == 1        \* tasks added under Spec and SpecAwake
MaxUserOps == 2       \* completion toggles and deletions under Spec
MaxRestarts == 1      \* page reloads of a session
ApiCalls == 2         \* update and delete calls under SpecApi
AwakeSteps == 63      \* polling intervals of a session under SpecAwake

(* Program constants *)

ThrottleMs == 1000
LatenessMs == 60000
IntervalMs == 1000

(* The figures of the README's description of the reminder system *)
ReadmeIntervalMs == 30000
ReadmeWindowMs == 120000

Ids == 1..MaxTasks
NoId == 0
Null == <<>>

AddInputs == {[due_date |-> <<2024, 1, 1>>, due_time |-> <<9, 0>>],
              [due_date |-> <<2024, 1, 1>>, due_time |-> Null]}
(* The instants at which the model looks at the clock, around 09:00:00. *)
ClockTimes == {9 * 3600000 + d : d \in {-1000, 0, 500, 60000, 60500}}
StartTime == 9 * 3600000 - 1000
(* The same for a process that is never suspended: one instant per polling *)
(* interval, the timer in either phase to the due time.                     *)
AwakeStarts == {StartTime - ThrottleMs \div 2, StartTime}
AwakeTimes == {t + k * ThrottleMs : t \in AwakeStarts, k \in 0..AwakeSteps}
(* The instants at which the page may be reloaded: at the due time, and one  *)
(* polling interval before the end of the lateness window and at its end.   *)
ReloadTimes == {9 * 3600000 + d : d \in {0, LatenessMs - ThrottleMs, LatenessMs}}

----------------------------------------------------------------------------
(* Dates *)

DaysFromCivil(y, m, d) ==
    LET yy  == IF m <= 2 THEN y - 1 ELSE y
        era == yy \div 400
        yoe == yy - era * 400
        mp  == IF m > 2 THEN m - 3 ELSE m + 9
        doy == (153 * mp + 2) \div 5 + d - 1
        doe == yoe * 365 + yoe \div 4 - yoe \div 100 + doy
    IN  era * 146097 + doe - 719468

DueTimeMs(task) ==
    LET year    == task.due_date[1]
        month   == task.due_date[2]
        day     == task.due_date[3]
        hours   == task.due_time[1]
        minutes == task.due_time[2]
    IN  (DaysFromCivil(year, month, day) - DaysFromCivil(2024, 1, 1)) * 86400000
          + hours * 3600000 + minutes * 60000

----------------------------------------------------------------------------
(* Lists of tasks *)

IdsOf(list) == {list[k].id : k \in 1..Len(list)}

TaskOf(list, i) == list[CHOOSE k \in 1..Len(list) : list[k].id = i]

RECURSIVE FilterSeq(_, _)
FilterSeq(list, i) ==
    IF list = <<>> THEN <<>>
    ELSE IF Head(list).id # i
         THEN <<Head(list)>> \o FilterSeq(Tail(list), i)
         ELSE FilterSeq(Tail(list), i)

MapReplace(list, i, data) ==
    [k \in 1..Len(list) |-> IF list[k].id = i THEN data ELSE list[k]]

----------------------------------------------------------------------------
(* The store: lib/database *)

(* Variant: an update that does not carry reminder_shown clears it. *)
MergeRearming(existing, updates) ==
    [f \in DOMAIN existing |->
        IF f \in DOMAIN updates THEN updates[f]
        ELSE IF f = "reminder_shown" THEN FALSE ELSE existing[f]]

Merge(existing, updates) ==
    [f \in DOMAIN existing |->
        IF f \in DOMAIN updates THEN updates[f] ELSE existing[f]]

(* Variant: the id of the partial task is not overridden. *)
UpdatedTaskSpread(existingTask, updates) == Merge(existingTask, updates)

UpdatedTask(existingTask, updates) ==
    [Merge(existingTask, updates) EXCEPT !.id = existingTask.id]

(* title, description, created_at and updated_at are left out: no modelled  *)
(* operation reads them, but for the newest-first order of getAllTasks,     *)
(* which is the order of creation and so the descending order of the ids.   *)
(* Variant: completed and reminder_shown are taken from the caller's data   *)
(* when it carries them.                                                    *)
NewTaskAsGiven(id, taskData) ==
    [id             |-> id,
     due_date       |-> taskData.due_date,
     due_time       |-> taskData.due_time,
     completed      |-> IF "completed" \in DOMAIN taskData
                        THEN taskData.completed ELSE FALSE,
     reminder_shown |-> IF "reminder_shown" \in DOMAIN taskData
                        THEN taskData.reminder_shown ELSE FALSE]

NewTask(id, taskData) ==
    [id             |-> id,
     due_date       |-> taskData.due_date,
     due_time       |-> taskData.due_time,
     completed      |-> FALSE,
     reminder_shown |-> FALSE]

Put(st, task) ==
    [i \in DOMAIN st \cup {task.id} |-> IF i = task.id THEN task ELSE st[i]]

Remove(st, id) == [i \in DOMAIN st \ {id} |-> st[i]]

(* Variant: the tasks are listed oldest first. *)
RECURSIVE SortOldestFirst(_, _)
SortOldestFirst(st, ids) ==
    IF ids = {} THEN <<>>
    ELSE LET first == CHOOSE i \in ids : \A j \in ids : i <= j
         IN  <<st[first]>> \o SortOldestFirst(st, ids \ {first})

RECURSIVE SortNewestFirst(_, _)
SortNewestFirst(st, ids) ==
    IF ids = {} THEN <<>>
    ELSE LET first == CHOOSE i \in ids : \A j \in ids : i >= j
         IN  <<st[first]>> \o SortNewestFirst(st, ids \ {first})

(* Variant: the list is loaded with every reminder_shown flag cleared. *)
GetAllTasksUnmarked(st) ==
    SortNewestFirst([i \in DOMAIN st |-> [st[i] EXCEPT !.reminder_shown = FALSE]],
                    DOMAIN st)

GetAllTasks(st) == SortNewestFirst(st, DOMAIN st)

(* A database call, as queued behind the calls issued before it. *)
AddOp(taskData)     == [op |-> "add", id |-> NoId, updates |-> taskData]
UpdateOp(id, upd)   == [op |-> "update", id |-> id, updates |-> upd]
DeleteOp(id)        == [op |-> "delete", id |-> id, updates |-> <<>>]
FetchOp             == [op |-> "fetch", id |-> NoId, updates |-> <<>>]

(* Variant: the store accepts every call. *)
AcceptsAny(st, call) == TRUE

(* Whether the store accepts the call. *)
Accepts(st, call) == call.op = "update" => call.id \in DOMAIN st

(* The store after the call has succeeded. *)
StoreAfter(st, call, nid) ==
    CASE call.op = "add"    -> Put(st, NewTask(nid, call.updates))
      [] call.op = "update" ->
            IF call.id \in DOMAIN st
            THEN Put(st, UpdatedTask(st[call.id], call.updates))
            ELSE st
      [] call.op = "delete" -> Remove(st, call.id)
      [] OTHER              -> st

(* Variant: a created task is put at the end of the list. *)
TasksAfterAppending(list, st, call, nid) ==
    CASE call.op = "add"    -> Append(list, NewTask(nid, call.updates))
      [] call.op = "update" ->
            MapReplace(list, call.id, UpdatedTask(st[call.id], call.updates))
      [] call.op = "delete" -> FilterSeq(list, call.id)
      [] OTHER              -> GetAllTasks(st)

(* Variant: a deleted task is left in the list. *)
TasksAfterKeeping(list, st, call, nid) ==
    CASE call.op = "add"    -> <<NewTask(nid, call.updates)>> \o list
      [] call.op = "update" ->
            MapReplace(list, call.id, UpdatedTask(st[call.id], call.updates))
      [] call.op = "delete" -> list
      [] OTHER              -> GetAllTasks(st)

(* useTasks: the state after the awaited call has resolved. *)
TasksAfter(list, st, call, nid) ==
    CASE call.op = "add"    -> <<NewTask(nid, call.updates)>> \o list
      [] call.op = "update" ->
            MapReplace(list, call.id, UpdatedTask(st[call.id], call.updates))
      [] call.op = "delete" -> FilterSeq(list, call.id)
      [] OTHER              -> GetAllTasks(st)

----------------------------------------------------------------------------
(* The scanner: hooks/useReminders *)

Abs(x) == IF x < 0 THEN -x ELSE x

(* Variants of the eligibility test: one that forgets reminder_shown, one   *)
(* that forgets completed.                                                  *)
SkippedUnlessCompleted(task) ==
    \/ task.completed
    \/ task.due_date = Null
    \/ task.due_time = Null

SkippedUnlessShown(task) ==
    \/ task.reminder_shown
    \/ task.due_date = Null
    \/ task.due_time = Null

Skipped(task) ==
    \/ task.completed
    \/ task.reminder_shown
    \/ task.due_date = Null
    \/ task.due_time = Null

(* Variant: only a task whose due time is the time of the scan. *)
InWindowOnTime(task, currentTime) == DueTimeMs(task) = currentTime

(* Variant: any task whose due time has passed, however long ago. *)
InWindowAnyLateness(task, currentTime) == DueTimeMs(task) <= currentTime

(* Variant: the window of the README, two minutes. *)
InWindowTwoMinutes(task, currentTime) ==
    LET dueTimeMs  == DueTimeMs(task)
        timeDiffMs == Abs(dueTimeMs - currentTime)
    IN  timeDiffMs <= ReadmeWindowMs /\ dueTimeMs <= currentTime

InWindow(task, currentTime) ==
    LET dueTimeMs  == DueTimeMs(task)
        timeDiffMs == Abs(dueTimeMs - currentTime)
    IN  timeDiffMs <= LatenessMs /\ dueTimeMs <= currentTime

(* Variant: a throttle of half the polling interval. *)
ThrottledHalf(currentTime, last) == currentTime - last < ThrottleMs \div 2

Throttled(currentTime, last) == currentTime - last < ThrottleMs

(* App.tsx onReminderTriggered: the sound (errors caught inside), the toast, *)
(* then the system notification, whose constructor may throw.                *)
OnReminderTriggered(task, alertThrows) ==
    [attempted |-> <<"sound", "toast", "alert">>, threw |-> alertThrows]

(* tasks.forEach of checkReminders, from position k on.  bad is the id of   *)
(* the task whose system notification throws (NoId: none does).             *)
(* The body of `if (timeDiffMs <= 60000 && dueTimeMs <= currentTime)`: mark, *)
(* notify, then issue the update.  bad is the id of the task whose system   *)
(* notification throws (NoId: none does).                                   *)
(* Variant: the update is issued without the callback being invoked. *)
DeliverUnannounced(task, acc, bad) ==
    [acc EXCEPT !.checked = @ \cup {task.id}, !.acked = Append(@, task.id)]

(* Variant: the id is put in the handled set after the callback returned. *)
DeliverMarkLast(task, acc, bad) ==
    LET sink == OnReminderTriggered(task, task.id = bad)
        told == [acc EXCEPT !.notified = Append(@, task.id)]
    IN  IF sink.threw
        THEN [told EXCEPT !.threw = TRUE]
        ELSE [told EXCEPT !.checked = @ \cup {task.id},
                          !.acked = Append(@, task.id)]

Deliver(task, acc, bad) ==
    LET sink == OnReminderTriggered(task, task.id = bad)
        told == [acc EXCEPT !.checked  = @ \cup {task.id},
                            !.notified = Append(@, task.id)]
    IN  IF sink.threw
        THEN [told EXCEPT !.threw = TRUE]
        ELSE [told EXCEPT !.acked = Append(@, task.id)]

(* tasks.forEach of checkReminders, from position k on; an exception ends it. *)
RECURSIVE ForEach(_, _, _, _, _)
ForEach(list, k, currentTime, acc, bad) ==
    IF k > Len(list) \/ acc.threw THEN acc
    ELSE LET task == list[k] IN
         IF Skipped(task) \/ task.id \in acc.checked
         THEN ForEach(list, k + 1, currentTime, acc, bad)
         ELSE IF InWindow(task, currentTime)
         THEN ForEach(list, k + 1, currentTime, Deliver(task, acc, bad), bad)
         ELSE ForEach(list, k + 1, currentTime, acc, bad)

CheckReminders(list, currentTime, last, checked, bad) ==
    LET idle == [throttled |-> TRUE, last |-> last, checked |-> checked,
                 notified |-> <<>>, acked |-> <<>>, threw |-> FALSE]
    IN  IF Throttled(currentTime, last)
        THEN idle
        ELSE ForEach(list, 1, currentTime,
                     [idle EXCEPT !.throttled = FALSE, !.last = currentTime], bad)

(* The second effect: forget the completed tasks. *)
CompletedIn(list) == {list[k].id : k \in {n \in 1..Len(list) : list[n].completed}}

(* Variant: the reset effect forgets every listed task. *)
ResetCheckedAll(list, checked) == checked \ IdsOf(list)

ResetChecked(list, checked) == checked \ CompletedIn(list)

Range(s) == {s[k] : k \in 1..Len(s)}

ScanLog(r) ==
    IF r.throttled THEN "throttled" ELSE IF r.threw THEN "threw" ELSE "ran"

ShownIn(list) == {list[k].id : k \in {n \in 1..Len(list) : list[n].reminder_shown}}

(* Variant: the scanner's update also completes the task. *)
AckCallsCompleting(r) ==
    [k \in 1..Len(r.acked) |->
        UpdateOp(r.acked[k], [reminder_shown |-> TRUE, completed |-> TRUE])]

(* Variant: the scanner never calls updateTask. *)
AckCallsNone(r) == <<>>

AckCalls(r) == [k \in 1..Len(r.acked) |-> UpdateOp(r.acked[k], [reminder_shown |-> TRUE])]

Bump(count, ids) == [i \in Ids |-> IF i \in ids THEN count[i] + 1 ELSE count[i]]

----------------------------------------------------------------------------
(* Mounting: useTasks issues the fetch, the scanner effect starts its timer *)
(* and runs its initial check on the empty list.                            *)

MountScan(t) == CheckReminders(<<>>, t, 0, {}, NoId)

Mounted(t, adds, ops) ==
    /\ store = <<>>
    /\ queue = <<FetchOp>>
    /\ nextId = 1
    /\ tasks = <<>>
    /\ seen = <<>>
    /\ dirty = FALSE
    /\ mounted = TRUE
    /\ timers = 1
    /\ checkedTasksRef = MountScan(t).checked
    /\ lastCheckTimeRef = MountScan(t).last
    /\ now = t
    /\ fired = [i \in Ids |-> 0]
    /\ acks = [i \in Ids |-> 0]
    /\ storeFailed = {}
    /\ everShown = {}
    /\ everCompleted = {}
    /\ lastScan = ScanLog(MountScan(t))
    /\ budget = [adds |-> adds, ops |-> ops]
    /\ reloads = <<>>

Init == Mounted(StartTime, SoloTasks, MaxUserOps)

----------------------------------------------------------------------------
(* User operations: App.tsx handlers calling useTasks *)

AddTask(taskData) ==
    /\ mounted
    /\ budget.adds > 0
    /\ queue' = Append(queue, AddOp(taskData))
    /\ budget' = [budget EXCEPT !.adds = @ - 1]
    /\ UNCHANGED <<store, nextId, tasks, seen, dirty, mounted, timers,
                   checkedTasksRef, lastCheckTimeRef, now, fired, acks,
                   storeFailed, everShown, everCompleted, lastScan, reloads>>

ToggleComplete(i) ==
    /\ mounted
    /\ budget.ops > 0
    /\ i \in IdsOf(seen)
    /\ queue' = Append(queue,
                       UpdateOp(i, [completed |-> ~TaskOf(seen, i).completed]))
    /\ budget' = [budget EXCEPT !.ops = @ - 1]
    /\ UNCHANGED <<store, nextId, tasks, seen, dirty, mounted, timers,
                   checkedTasksRef, lastCheckTimeRef, now, fired, acks,
                   storeFailed, everShown, everCompleted, lastScan, reloads>>

DeleteTask(i) ==
    /\ mounted
    /\ budget.ops > 0
    /\ i \in IdsOf(seen)
    /\ queue' = Append(queue, DeleteOp(i))
    /\ budget' = [budget EXCEPT !.ops = @ - 1]
    /\ UNCHANGED <<store, nextId, tasks, seen, dirty, mounted, timers,
                   checkedTasksRef, lastCheckTimeRef, now, fired, acks,
                   storeFailed, everShown, everCompleted, lastScan, reloads>>

(* useTasks.updateTask and useTasks.deleteTask as a caller other than the   *)
(* task row may invoke them: any id, any partial task.                      *)
AddTaskInputs ==
    {[due_date |-> <<2024, 1, 1>>, due_time |-> <<9, 0>>,
      completed |-> TRUE, reminder_shown |-> TRUE],
     [due_date |-> <<2024, 1, 1>>, due_time |-> Null]}

UpdateInputs(id) ==
    {[completed |-> TRUE]}
        \cup {[id |-> j, reminder_shown |-> TRUE] : j \in Ids \ {id}}

UpdateTask(id, updates) ==
    /\ mounted
    /\ budget.ops > 0
    /\ queue' = Append(queue, UpdateOp(id, updates))
    /\ budget' = [budget EXCEPT !.ops = @ - 1]
    /\ UNCHANGED <<store, nextId, tasks, seen, dirty, mounted, timers,
                   checkedTasksRef, lastCheckTimeRef, now, fired, acks,
                   storeFailed, everShown, everCompleted, lastScan, reloads>>

DeleteTaskOf(id) ==
    /\ mounted
    /\ budget.ops > 0
    /\ queue' = Append(queue, DeleteOp(id))
    /\ budget' = [budget EXCEPT !.ops = @ - 1]
    /\ UNCHANGED <<store, nextId, tasks, seen, dirty, mounted, timers,
                   checkedTasksRef, lastCheckTimeRef, now, fired, acks,
                   storeFailed, everShown, everCompleted, lastScan, reloads>>

----------------------------------------------------------------------------
(* The oldest database call settles. *)

StoreCommit ==
    /\ queue # <<>>
    /\ Accepts(store, Head(queue))
    /\ store' = StoreAfter(store, Head(queue), nextId)
    /\ nextId' = IF Head(queue).op = "add" THEN nextId + 1 ELSE nextId
    /\ queue' = Tail(queue)
    /\ IF mounted
       THEN /\ tasks' = TasksAfter(tasks, store, Head(queue), nextId)
            /\ dirty' = TRUE
       ELSE UNCHANGED <<tasks, dirty>>
    /\ UNCHANGED <<seen, mounted, timers, checkedTasksRef, lastCheckTimeRef,
                   now, fired, acks, storeFailed, everShown, everCompleted,
                   lastScan, budget, reloads>>

What(call) ==
    IF call.op # "update" THEN call.op
    ELSE IF "reminder_shown" \in DOMAIN call.updates THEN "reminder_shown"
    ELSE IF "completed" \in DOMAIN call.updates THEN "completed"
    ELSE "other"

(* Variant: a rejected update is reported to nobody. *)
RejectionsNone(st, call) == {}

(* The error the caller of a rejected update gets: one record of the kind   *)
(* of update, and two more when the id was not in the store.                *)
Rejections(st, call) ==
    {<<call.id, What(call)>>} \cup
    (IF call.id \in DOMAIN st
     THEN {}
     ELSE {<<call.id, "Task not found">>,
           <<call.id, What(call), "Task not found">>})

StoreFail ==
    /\ queue # <<>>
    /\ queue' = Tail(queue)
    /\ storeFailed' = IF Head(queue).op = "update"
                       THEN storeFailed \cup Rejections(store, Head(queue))
                       ELSE storeFailed
    /\ UNCHANGED <<store, nextId, tasks, seen, dirty, mounted, timers,
                   checkedTasksRef, lastCheckTimeRef, now, fired, acks,
                   everShown, everCompleted, lastScan, budget, reloads>>

----------------------------------------------------------------------------
(* The scanner runs. *)

Scanned(r, list) ==
    /\ lastCheckTimeRef' = r.last
    /\ fired' = Bump(fired, Range(r.notified))
    /\ acks' = Bump(acks, Range(r.acked))
    /\ queue' = queue \o AckCalls(r)
    /\ everShown' = everShown \cup ShownIn(list)
    /\ lastScan' = ScanLog(r)

(* The setInterval callback, on the task list of the render that set it. *)
Tick ==
    /\ timers > 0
    /\ \E bad \in IdsOf(seen) \cup {NoId} :
          LET r == CheckReminders(seen, now, lastCheckTimeRef, checkedTasksRef, bad)
          IN  /\ Scanned(r, seen)
              /\ checkedTasksRef' = r.checked
    /\ UNCHANGED <<store, nextId, tasks, seen, dirty, mounted, timers, now,
                   storeFailed, everCompleted, budget, reloads>>

(* A render commits and its effects run: the scanner effect (old timer     *)
(* cleared, new timer, initial check), then, when the task list is a new   *)
(* one, the reset effect.  An exception escaping an effect unmounts the    *)
(* tree; the timer that effect had just started is never cleared.          *)
Render ==
    /\ mounted
    /\ seen' = tasks
    /\ dirty' = FALSE
    /\ timers' = 1
    /\ \E bad \in IdsOf(tasks) \cup {NoId} :
          LET r == CheckReminders(tasks, now, lastCheckTimeRef, checkedTasksRef, bad)
          IN  /\ Scanned(r, tasks)
              /\ mounted' = ~r.threw
              /\ checkedTasksRef' =
                    IF dirty /\ ~r.threw
                    THEN ResetChecked(tasks, r.checked)
                    ELSE r.checked
    /\ everCompleted' = everCompleted \cup CompletedIn(tasks)
    /\ UNCHANGED <<store, nextId, tasks, now, storeFailed, budget, reloads>>

----------------------------------------------------------------------------
(* The environment: time passes. *)

Advance(t) ==
    /\ t > now
    /\ now' = t
    /\ lastScan' = "none"
    /\ UNCHANGED <<store, queue, nextId, tasks, seen, dirty, mounted, timers,
                   checkedTasksRef, lastCheckTimeRef, fired, acks,
                   storeFailed, everShown, everCompleted, budget, reloads>>

(* In a process that is not suspended the pending work is done and the      *)
(* scanner is invoked before a polling interval has passed.                 *)
AwakeAdvance(t) ==
    /\ queue = <<>>
    /\ ~dirty
    /\ lastScan # "none"
    /\ t = now + IntervalMs
    /\ Advance(t)

(* The page is reloaded.  The first k pending calls still reach the store;  *)
(* no callback of the old page runs, its timers and refs are gone, and the  *)
(* new page mounts.                                                         *)
RECURSIVE Flushed(_, _, _, _)
Flushed(st, nid, calls, k) ==
    IF k = 0 \/ calls = <<>> THEN [store |-> st, nextId |-> nid]
    ELSE IF Accepts(st, Head(calls))
         THEN Flushed(StoreAfter(st, Head(calls), nid),
                      IF Head(calls).op = "add" THEN nid + 1 ELSE nid,
                      Tail(calls), k - 1)
         ELSE Flushed(st, nid, Tail(calls), k - 1)

(* The tasks notified by the old page whose reminder_shown update the      *)
(* store rejected, and whose flag in the store st is still false.           *)
Unacked(st) ==
    {i \in Ids : /\ fired[i] >= 1
                 /\ <<i, "reminder_shown">> \in storeFailed
                 /\ ~(i \in DOMAIN st /\ st[i].reminder_shown)}

Restart ==
    /\ Len(reloads) < MaxRestarts
    /\ \E k \in 0..Len(queue) :
          /\ store' = Flushed(store, nextId, queue, k).store
          /\ nextId' = Flushed(store, nextId, queue, k).nextId
    /\ queue' = <<FetchOp>>
    /\ tasks' = <<>>
    /\ seen' = <<>>
    /\ dirty' = FALSE
    /\ mounted' = TRUE
    /\ timers' = 1
    /\ checkedTasksRef' = MountScan(now).checked
    /\ lastCheckTimeRef' = MountScan(now).last
    /\ lastScan' = ScanLog(MountScan(now))
    /\ reloads' = Append(reloads, [at |-> now, unacked |-> Unacked(store')])
    /\ UNCHANGED <<now, fired, acks, storeFailed, everShown, everCompleted, budget>>

----------------------------------------------------------------------------
(* One session of the application, from a fresh store. *)

Next ==
    \/ \E taskData \in AddInputs : AddTask(taskData)
    \/ \E i \in Ids : ToggleComplete(i)
    \/ \E i \in Ids : DeleteTask(i)
    \/ StoreCommit
    \/ StoreFail
    \/ Tick
    \/ Render
    \/ \E t \in ClockTimes : Advance(t)

Spec == Init /\ [][Next]_vars

(* The same session with the clock read at the due time and at the end of  *)
(* the lateness window only.                                                *)
RaceTimes == {9 * 3600000, 9 * 3600000 + LatenessMs}

NextRace ==
    \/ \E taskData \in AddInputs : AddTask(taskData)
    \/ \E i \in Ids : ToggleComplete(i)
    \/ \E i \in Ids : DeleteTask(i)
    \/ StoreCommit
    \/ StoreFail
    \/ Tick
    \/ Render
    \/ \E t \in RaceTimes : Advance(t)

SpecRace == Init /\ [][NextRace]_vars

(* The same with two tasks. *)
InitPair == Mounted(StartTime, MaxTasks, PairUserOps)

SpecPair == InitPair /\ [][Next]_vars

(* A session in which the user only adds tasks, the store is available and  *)
(* the process is never suspended.                                          *)
InitAwake == \E t \in AwakeStarts : Mounted(t, SoloTasks, 0)

NextAwake ==
    \/ \E taskData \in AddInputs : AddTask(taskData)
    \/ StoreCommit
    \/ Tick
    \/ Render
    \/ \E t \in AwakeTimes : AwakeAdvance(t)

SpecAwake ==
    /\ InitAwake
    /\ [][NextAwake]_vars
    /\ WF_vars(StoreCommit)
    /\ WF_vars(Tick)
    /\ WF_vars(Render)
    /\ WF_vars(\E t \in AwakeTimes : AwakeAdvance(t))

(* A session with page reloads, in a process that is never suspended; the  *)
(* store may reject calls.                                                  *)
RestartAt(t) == now = t /\ Restart

InitReloadAwake == \E t \in AwakeStarts : Mounted(t, SoloTasks, 0)

NextReloadAwake ==
    \/ \E taskData \in AddInputs : AddTask(taskData)
    \/ StoreCommit
    \/ StoreFail
    \/ Tick
    \/ Render
    \/ \E t \in AwakeTimes : AwakeAdvance(t)
    \/ \E t \in ReloadTimes : RestartAt(t)

SpecReloadAwake == InitReloadAwake /\ [][NextReloadAwake]_vars

(* A session around the due time, with page reloads at the due time. *)
NextReloadRace ==
    \/ \E taskData \in AddInputs : AddTask(taskData)
    \/ \E i \in Ids : ToggleComplete(i)
    \/ \E i \in Ids : DeleteTask(i)
    \/ StoreCommit
    \/ StoreFail
    \/ Tick
    \/ Render
    \/ Advance(9 * 3600000)
    \/ RestartAt(9 * 3600000)

SpecReloadRace == Init /\ [][NextReloadRace]_vars

(* Two tasks, a store that rejects no call, and page reloads at the due     *)
(* time.                                                                    *)
NextSync ==
    \/ \E taskData \in AddInputs : AddTask(taskData)
    \/ \E i \in Ids : ToggleComplete(i)
    \/ \E i \in Ids : DeleteTask(i)
    \/ StoreCommit
    \/ Tick
    \/ Render
    \/ Advance(9 * 3600000)
    \/ RestartAt(9 * 3600000)

InitSync == Mounted(StartTime, MaxTasks, SyncUserOps)

SpecSync == InitSync /\ [][NextSync]_vars

(* The operations of useTasks called with any id and any partial task, and  *)
(* the states of useTasks they lead to; no scan runs.                       *)
InitApi == Mounted(StartTime, MaxTasks, ApiCalls)

NextApi ==
    \/ \E taskData \in AddTaskInputs : AddTask(taskData)
    \/ \E id \in Ids : \E updates \in UpdateInputs(id) : UpdateTask(id, updates)
    \/ \E id \in Ids : DeleteTaskOf(id)
    \/ StoreCommit
    \/ StoreFail

SpecApi == InitApi /\ [][NextApi]_vars

----------------------------------------------------------------------------
(* Vocabulary of the properties *)

HasDue(task) == task.due_date # Null /\ task.due_time # Null

(* Task i is in the list, not completed, not yet marked, and has a due time. *)
Open(list, i) ==
    /\ i \in IdsOf(list)
    /\ HasDue(TaskOf(list, i))
    /\ ~TaskOf(list, i).completed
    /\ ~TaskOf(list, i).reminder_shown

(* The clock is at or after the due time of i and at most 60 s past it. *)
DueNow(list, i) ==
    /\ DueTimeMs(TaskOf(list, i)) <= now
    /\ now <= DueTimeMs(TaskOf(list, i)) + 60000

ShownInStore(i) == i \in DOMAIN store /\ store[i].reminder_shown

ShownInMemory(i) ==
    \/ i \in IdsOf(tasks) /\ TaskOf(tasks, i).reminder_shown
    \/ i \in IdsOf(seen) /\ TaskOf(seen, i).reminder_shown

ShownEverywhere(i) ==
    /\ ShownInStore(i)
    /\ i \in IdsOf(tasks) /\ TaskOf(tasks, i).reminder_shown

(* An update setting reminder_shown of i was rejected by the store. *)
RsFailed(i) == <<i, "reminder_shown">> \in storeFailed

AckPending(i) ==
    \E k \in 1..Len(queue) : queue[k] = UpdateOp(i, [reminder_shown |-> TRUE])

----------------------------------------------------------------------------
(* C1: as long as no store update has failed, onReminderTriggered has been  *)
(* invoked at most once for every task.                                     *)
C1_AtMostOnce == \A i \in Ids : storeFailed = {} => fired[i] <= 1

(* No store update has failed and a task has been notified twice. *)
C1_Witness == \E i \in Ids : storeFailed = {} /\ fired[i] = 2

(* C2: once a list handed to the scanner has shown task i with             *)
(* reminder_shown = true, no step invokes the callback for i or issues an   *)
(* update for i again.                                                      *)
C2_ShownNeverSelected ==
    [][\A i \in everShown' : fired'[i] = fired[i] /\ acks'[i] = acks[i]]_vars

(* A scan has just run on a list in which an already marked task is due, not *)
(* completed and not in the handled set.                                     *)
C2_Witness ==
    \E i \in everShown :
        /\ i \in IdsOf(seen)
        /\ TaskOf(seen, i).reminder_shown
        /\ ~TaskOf(seen, i).completed
        /\ DueNow(seen, i)
        /\ i \notin checkedTasksRef
        /\ lastScan = "ran"
        /\ fired[i] = 1

(* C3: in a session that is never suspended and whose store is available,  *)
(* a stored task that is not completed and not marked before its due time T *)
(* is notified exactly once, at a time from T to T + 60 s, and unless the   *)
(* tree was unmounted or the notification threw, reminder_shown becomes     *)
(* true in the store and in the list; no task is ever notified twice.       *)
Armed(i) ==
    /\ i \in DOMAIN store
    /\ HasDue(store[i])
    /\ ~store[i].completed
    /\ ~store[i].reminder_shown
    /\ now < DueTimeMs(store[i])

Settled(i) ==
    /\ fired[i] = 1
    /\ \/ ~mounted
       \/ acks[i] < fired[i]
       \/ ShownEverywhere(i)

C3_HappyPathExactlyOnce ==
    /\ [](\A i \in Ids : fired[i] <= 1)
    /\ [][\A i \in Ids :
            fired'[i] # fired[i] =>
                /\ DueTimeMs(TaskOf(seen', i)) <= now'
                /\ now' <= DueTimeMs(TaskOf(seen', i)) + 60000]_vars
    /\ \A i \in Ids : Armed(i) ~> Settled(i)

(* The task was notified once, its update has reached the store and the     *)
(* list, and the tree is still mounted.                                     *)
C3_Witness ==
    \E i \in Ids :
        /\ mounted
        /\ fired[i] = 1
        /\ acks[i] = 1
        /\ ShownEverywhere(i)
        /\ now >= DueTimeMs(store[i])

C5_CompletedNeverSelected ==
    [][\A i \in Ids :
          fired'[i] # fired[i] \/ acks'[i] # acks[i] =>
              /\ i \in IdsOf(seen')
              /\ ~TaskOf(seen', i).completed]_vars

(* A scan has just run on a due task that was completed while its           *)
(* reminder_shown update was still pending.                                 *)
C5_Witness ==
    \E i \in IdsOf(seen) :
        /\ TaskOf(seen, i).completed
        /\ ~TaskOf(seen, i).reminder_shown
        /\ HasDue(TaskOf(seen, i))
        /\ DueNow(seen, i)
        /\ i \notin checkedTasksRef
        /\ AckPending(i)
        /\ lastScan = "ran"
        /\ fired[i] = 1

C7_SinkFailureContained ==
    [][/\ \A i \in Ids : fired'[i] # fired[i] => acks'[i] = acks[i] + 1
       /\ lastScan' # "threw"]_vars

(* A scan has ended in an exception after notifying a task, whose update    *)
(* was never issued.                                                        *)
C7_Witness ==
    /\ lastScan = "threw"
    /\ \E i \in IdsOf(seen) : fired[i] = 1 /\ acks[i] = 0 /\ ~AckPending(i)

(* C8: an update reminder_shown = true is issued for a task only in a step  *)
(* that invokes the callback for it; so a task has never had more updates   *)
(* than notifications, and a task with reminder_shown = true in the store   *)
(* or in memory has been notified.                                          *)
C8_NotifyBeforeAcknowledge ==
    /\ [][\A i \in Ids : acks'[i] # acks[i] => fired'[i] = fired[i] + 1]_vars
    /\ [](\A i \in Ids :
            /\ acks[i] <= fired[i]
            /\ (ShownInStore(i) \/ ShownInMemory(i) => fired[i] >= 1))

(* The update of a notified task has reached the store and the list. *)
C8_Witness ==
    \E i \in Ids : ShownEverywhere(i) /\ fired[i] = 1 /\ acks[i] = 1

(* C9: a step taken less than 1000 ms after the last non-throttled scan     *)
(* invokes no callback, issues no update, and leaves the last-scan time     *)
(* alone; it adds nothing to the handled set, and changes it only when it   *)
(* is the render of a new task list, whose reset effect removes the         *)
(* completed tasks.                                                         *)
C9_Throttle ==
    [][now - lastCheckTimeRef < 1000 =>
          /\ fired' = fired
          /\ acks' = acks
          /\ lastCheckTimeRef' = lastCheckTimeRef
          /\ \/ checkedTasksRef' = checkedTasksRef
             \/ /\ dirty
                /\ checkedTasksRef' = checkedTasksRef \ CompletedIn(seen')]_vars

(* A throttled invocation has just passed over a due, eligible, unhandled   *)
(* task.                                                                    *)
C9_Witness ==
    /\ lastScan = "throttled"
    /\ now - lastCheckTimeRef < 1000
    /\ \E i \in IdsOf(seen) :
          /\ Open(seen, i)
          /\ DueNow(seen, i)
          /\ i \notin checkedTasksRef
          /\ fired[i] = 0

(* C10: a non-throttled scan invokes the callback for every task of its     *)
(* list that a render has read as completed and that is now not completed,  *)
(* not marked, not in the handled set, and due within the last 60 s.        *)
C10_RearmedFires ==
    [][lastCheckTimeRef' # lastCheckTimeRef =>
          \A i \in everCompleted \cap IdsOf(seen') :
              /\ Open(seen', i)
              /\ i \notin checkedTasksRef
              /\ DueNow(seen', i)
              => fired'[i] = fired[i] + 1]_vars

(* A non-throttled scan has just ended in an exception before reaching a    *)
(* re-armed task of its list.                                               *)
C10_Witness ==
    /\ lastScan = "threw"
    /\ lastCheckTimeRef = now
    /\ \E i \in everCompleted \cap IdsOf(seen) :
          /\ Open(seen, i)
          /\ DueNow(seen, i)
          /\ i \notin checkedTasksRef

----------------------------------------------------------------------------
(* C11: a non-throttled scan invokes the callback for a task of its list if *)
(* and only if the task has a due date and a due time, is not completed,    *)
(* has reminder_shown = false, is not in the handled set, and its due time  *)
(* is at most 60000 ms before the time of the scan and not after it.        *)
C11_EligibilityPredicate ==
    [][lastCheckTimeRef' # lastCheckTimeRef =>
          \A i \in IdsOf(seen') :
              fired'[i] # fired[i] <=>
                  /\ HasDue(TaskOf(seen', i))
                  /\ ~TaskOf(seen', i).completed
                  /\ ~TaskOf(seen', i).reminder_shown
                  /\ i \notin checkedTasksRef
                  /\ 0 <= now - DueTimeMs(TaskOf(seen', i))
                  /\ now - DueTimeMs(TaskOf(seen', i)) <= 60000]_vars

(* A non-throttled scan has just ended in an exception before reaching an   *)
(* eligible task of its list that was never notified.                       *)
C11_Witness ==
    /\ lastScan = "threw"
    /\ lastCheckTimeRef = now
    /\ \E i \in IdsOf(seen) :
          /\ Open(seen, i)
          /\ DueNow(seen, i)
          /\ i \notin checkedTasksRef
          /\ fired[i] = 0

(* C12: once reminder_shown of a task is true in the store, no step invokes *)
(* the callback or issues an update for it, whether or not the page is      *)
(* reloaded in between.                                                     *)
C12_RefreshSafe ==
    [][\A i \in Ids :
          ShownInStore(i) => fired'[i] = fired[i] /\ acks'[i] = acks[i]]_vars

(* After a reload within 60 s of the due time, a scan has just run on the    *)
(* reloaded list, in which the acknowledged task is due, not completed and  *)
(* not in the handled set.                                                  *)
C12_Witness ==
    /\ reloads # <<>>
    /\ lastScan = "ran"
    /\ \E i \in IdsOf(seen) :
          /\ ShownInStore(i)
          /\ TaskOf(seen, i).reminder_shown
          /\ ~TaskOf(seen, i).completed
          /\ DueNow(seen, i)
          /\ reloads[Len(reloads)].at >= DueTimeMs(TaskOf(seen, i))
          /\ i \notin checkedTasksRef
          /\ fired[i] = 1

----------------------------------------------------------------------------
(* A step in which the scanner ran: no user operation was spent, no         *)
(* database call settled, the clock did not move.                           *)
ScanStep ==
    /\ budget' = budget
    /\ now' = now
    /\ reloads' = reloads
    /\ Len(queue') >= Len(queue)

(* C14: a scan leaves the store and the in-memory list as they are; the     *)
(* only calls it issues are updateTask(id, {reminder_shown: true}) for the  *)
(* tasks it has just notified; a scan that notifies nothing issues no call  *)
(* and leaves the handled set as it is (the reset effect of the same render *)
(* aside); and when such a call commits, the stored task and the listed     *)
(* task change in reminder_shown only.                                      *)
C14_ScannerFrame ==
    /\ [][ScanStep =>
            /\ store' = store
            /\ tasks' = tasks
            /\ nextId' = nextId
            /\ SubSeq(queue', 1, Len(queue)) = queue
            /\ \A k \in (Len(queue) + 1)..Len(queue') :
                   /\ queue'[k].op = "update"
                   /\ queue'[k].updates = [reminder_shown |-> TRUE]
                   /\ fired'[queue'[k].id] = fired[queue'[k].id] + 1
            /\ fired' = fired =>
                   /\ queue' = queue
                   /\ \/ checkedTasksRef' = checkedTasksRef
                      \/ /\ dirty
                         /\ checkedTasksRef' = checkedTasksRef \ CompletedIn(tasks)]_vars
    /\ [][(/\ queue # <<>>
           /\ queue' = Tail(queue)
           /\ Head(queue).op = "update"
           /\ "reminder_shown" \in DOMAIN Head(queue).updates
           /\ store' # store) =>
            /\ store' = [store EXCEPT ![Head(queue).id].reminder_shown = TRUE]
            /\ mounted =>
                  /\ Len(tasks') = Len(tasks)
                  /\ \A k \in 1..Len(tasks) :
                        tasks'[k] = IF tasks[k].id = Head(queue).id
                                    THEN [tasks[k] EXCEPT !.reminder_shown = TRUE]
                                    ELSE tasks[k]]_vars

(* A task was notified once, its update has reached the store, and a later  *)
(* scan ran over it without selecting anything.                             *)
C14_Witness ==
    /\ lastScan = "ran"
    /\ lastCheckTimeRef = now
    /\ queue = <<>>
    /\ \E i \in IdsOf(seen) :
          /\ ShownEverywhere(i)
          /\ ~TaskOf(seen, i).completed
          /\ fired[i] = 1
          /\ acks[i] = 1
          /\ DueTimeMs(TaskOf(seen, i)) < now

(* C15: at most one interval timer of the scanner is active, and once the   *)
(* scanner is unmounted no timer is left.                                   *)
C15_NoDanglingTimers ==
    /\ timers <= 1
    /\ ~mounted => timers = 0

(* The tree is unmounted, the interval set by the effect that threw is      *)
(* still there, and its callback has run a scan at a later instant.         *)
C15_Witness ==
    /\ ~mounted
    /\ timers = 1
    /\ lastScan = "ran"
    /\ lastCheckTimeRef = now

----------------------------------------------------------------------------
(* The oldest database call settles in this step. *)
Settles(op) ==
    /\ queue # <<>>
    /\ queue' = Tail(queue)
    /\ reloads' = reloads
    /\ Head(queue).op = op

(* C16: an update of an id that is not in the store is rejected as          *)
(* 'Task not found': the store is unchanged, the caller gets the failure    *)
(* and the in-memory list is not set.                                       *)
C16_UpdateMissingRejected ==
    [][(Settles("update") /\ Head(queue).id \notin DOMAIN store) =>
          /\ store' = store
          /\ nextId' = nextId
          /\ tasks' = tasks
          /\ dirty' = dirty
          /\ <<Head(queue).id, "Task not found">> \in storeFailed']_vars

(* An update of an id that was never stored has been rejected, the store   *)
(* holding other tasks.                                                     *)
C16_Witness ==
    /\ queue = <<>>
    /\ \E i \in Ids :
          /\ i >= nextId
          /\ <<i, "Task not found">> \in storeFailed
          /\ store # <<>>
          /\ IdsOf(tasks) = DOMAIN store

(* C17: a delete of an id that is in the store succeeds and removes the     *)
(* task from the store and from the list; a delete of an id that is not in  *)
(* the store is rejected: it does not settle as a success.                  *)
C17_DeleteById ==
    /\ [][(Settles("delete") /\ Head(queue).id \in DOMAIN store /\ store' # store) =>
            /\ DOMAIN store' = DOMAIN store \ {Head(queue).id}
            /\ \A i \in DOMAIN store' : store'[i] = store[i]
            /\ tasks' = FilterSeq(tasks, Head(queue).id)]_vars
    /\ [][(Settles("delete") /\ Head(queue).id \notin DOMAIN store) =>
            /\ dirty' = dirty
            /\ tasks' = tasks]_vars

(* The task was deleted and the empty list rendered; then a second delete   *)
(* of the same id settled as a success and the list was set again.          *)
C17_Witness ==
    /\ queue = <<>>
    /\ budget.ops = 0
    /\ nextId = 2
    /\ store = <<>>
    /\ tasks = <<>>
    /\ seen = <<>>
    /\ dirty
    /\ storeFailed = {}

(* C18: the task a create call returns is not completed and not shown,      *)
(* whatever the caller's data carried; it has the due fields given, a new   *)
(* id, and is in the store with these values when the call resolves.        *)
C18_CreatedOpenAndUnshown ==
    [][(Settles("add") /\ store' # store) =>
          /\ nextId \notin DOMAIN store
          /\ DOMAIN store' = DOMAIN store \cup {nextId}
          /\ \A i \in DOMAIN store : store'[i] = store[i]
          /\ store'[nextId].id = nextId
          /\ ~store'[nextId].completed
          /\ ~store'[nextId].reminder_shown
          /\ store'[nextId].due_date = Head(queue).updates.due_date
          /\ store'[nextId].due_time = Head(queue).updates.due_time
          /\ tasks' = <<store'[nextId]>> \o tasks]_vars

(* A task created from data that carried completed and reminder_shown set   *)
(* is the newest of the list and of the store, with both flags false.       *)
C18_Witness ==
    /\ budget.ops = ApiCalls
    /\ tasks # <<>>
    /\ Head(tasks).id = nextId - 1
    /\ Head(tasks).due_time = <<9, 0>>
    /\ nextId - 1 \in DOMAIN store
    /\ store[nextId - 1] = Head(tasks)
    /\ ~Head(tasks).completed
    /\ ~Head(tasks).reminder_shown

(* C19: every stored task is stored under the id it was created with, and  *)
(* an update, also one whose partial task carries another id, leaves the    *)
(* set of stored ids, the id of the task and every other record unchanged;  *)
(* the ids of the in-memory list are unchanged too.                         *)
C19_IdImmutable ==
    /\ [][\A k \in DOMAIN store' : store'[k].id = k]_vars
    /\ [][(Settles("update") /\ store' # store) =>
            /\ DOMAIN store' = DOMAIN store
            /\ \A i \in DOMAIN store \ {Head(queue).id} : store'[i] = store[i]
            /\ store'[Head(queue).id] =
                  [Merge(store[Head(queue).id], Head(queue).updates)
                      EXCEPT !.id = Head(queue).id]
            /\ Len(tasks') = Len(tasks)
            /\ \A k \in 1..Len(tasks) : tasks'[k].id = tasks[k].id]_vars

(* Two tasks are stored; an update of one that carried the id of the other  *)
(* has been applied, and both are where they were.                          *)
C19_Witness ==
    /\ queue = <<>>
    /\ DOMAIN store = Ids
    /\ IdsOf(tasks) = Ids
    /\ \E i \in Ids :
          /\ store[i].reminder_shown
          /\ TaskOf(tasks, i).reminder_shown
          /\ \A j \in Ids \ {i} : ~store[j].reminder_shown

(* A list of tasks in which each task was created after the next one.  The  *)
(* ids are given out in the order of creation.                              *)
NewestFirst(list) == \A k \in 1..(Len(list) - 1) : list[k].id > list[k + 1].id

(* C20: getAllTasks returns every stored task, once, newest created first,  *)
(* and the in-memory list is newest created first in every state.           *)
C20_NewestFirst ==
    /\ NewestFirst(tasks)
    /\ NewestFirst(GetAllTasks(store))
    /\ Len(GetAllTasks(store)) = Cardinality(DOMAIN store)
    /\ \A i \in DOMAIN store :
          \E k \in 1..Len(GetAllTasks(store)) : GetAllTasks(store)[k] = store[i]

(* Two tasks are listed and stored, newest first, after every call has      *)
(* settled with success; the older one has been updated.                    *)
C20_Witness ==
    /\ queue = <<>>
    /\ budget.ops = 0
    /\ Len(tasks) = 2
    /\ tasks[1].id > tasks[2].id
    /\ tasks[2].completed
    /\ GetAllTasks(store) = tasks
    /\ storeFailed = {}

----------------------------------------------------------------------------
(* Task i of the list is due, not completed, not marked, not handled, and   *)
(* its due time is at most w ms before t and not after it.                  *)
EligibleWithin(list, i, checked, t, w) ==
    /\ HasDue(TaskOf(list, i))
    /\ ~TaskOf(list, i).completed
    /\ ~TaskOf(list, i).reminder_shown
    /\ i \notin checked
    /\ 0 <= t - DueTimeMs(TaskOf(list, i))
    /\ t - DueTimeMs(TaskOf(list, i)) <= w

----------------------------------------------------------------------------
(* The views: App.tsx filteredTasks and taskCounts *)

(* Date.getTimezoneOffset() of the user's zone, in minutes: UTC+10, UTC,    *)
(* UTC-5.                                                                   *)
TzOffsets == {-600, 0, 300}

Calendar == {<<2023, 12, 31>>, <<2024, 1, 1>>, <<2024, 1, 2>>}

DateOfDay(n) ==
    CHOOSE d \in Calendar :
        DaysFromCivil(d[1], d[2], d[3]) - DaysFromCivil(2024, 1, 1) = n

(* The calendar date of the user's clock. *)
LocalDate(t) == DateOfDay(t \div 86400000)

(* new Date().toISOString().split('T')[0]: the calendar date in UTC. *)
UtcDate(t, offset) == DateOfDay((t + offset * 60000) \div 86400000)

(* 'YYYY-MM-DD' as its digits. *)
IsoDate(d) ==
    <<(d[1] \div 1000) % 10, (d[1] \div 100) % 10, (d[1] \div 10) % 10, d[1] % 10,
      d[2] \div 10, d[2] % 10, d[3] \div 10, d[3] % 10>>

(* a > b on strings of the same length. *)
RECURSIVE StrGreater(_, _)
StrGreater(a, b) ==
    IF a = <<>> \/ b = <<>> THEN FALSE
    ELSE IF Head(a) # Head(b) THEN Head(a) > Head(b)
    ELSE StrGreater(Tail(a), Tail(b))

TodayStr(t, offset) == IsoDate(UtcDate(t, offset))

DueStr(task) == IsoDate(task.due_date)

(* Variant: the Today view of the README, due today or earlier. *)
InViewReadme(task, view, todayStr) ==
    CASE view = "today" ->
            /\ task.due_date # Null
            /\ ~StrGreater(DueStr(task), todayStr)
            /\ ~task.completed
      [] view = "upcoming" ->
            /\ task.due_date # Null
            /\ StrGreater(DueStr(task), todayStr)
            /\ ~task.completed
      [] view = "completed" -> task.completed
      [] OTHER -> ~task.completed

InView(task, view, todayStr) ==
    CASE view = "today" ->
            /\ task.due_date # Null
            /\ DueStr(task) = todayStr
            /\ ~task.completed
      [] view = "upcoming" ->
            /\ task.due_date # Null
            /\ StrGreater(DueStr(task), todayStr)
            /\ ~task.completed
      [] view = "completed" -> task.completed
      [] OTHER -> ~task.completed

RECURSIVE Filter(_, _, _)
Filter(list, view, todayStr) ==
    IF list = <<>> THEN <<>>
    ELSE IF InView(Head(list), view, todayStr)
         THEN <<Head(list)>> \o Filter(Tail(list), view, todayStr)
         ELSE Filter(Tail(list), view, todayStr)

FilteredTasks(list, currentView, t, offset) ==
    Filter(list, currentView, TodayStr(t, offset))

TaskCounts(list, t, offset) ==
    [inbox     |-> Len(Filter(list, "inbox", TodayStr(t, offset))),
     today     |-> Len(Filter(list, "today", TodayStr(t, offset))),
     upcoming  |-> Len(Filter(list, "upcoming", TodayStr(t, offset))),
     completed |-> Len(Filter(list, "completed", TodayStr(t, offset)))]

(* Tasks due yesterday, today and tomorrow on the user's calendar, and one  *)
(* without a due date.                                                      *)
ViewInputs ==
    {[due_date |-> d, due_time |-> Null] : d \in Calendar}
        \cup {[due_date |-> Null, due_time |-> Null]}

InitViews == Mounted(StartTime, MaxTasks, MaxUserOps)

NextViews ==
    \/ \E taskData \in ViewInputs : AddTask(taskData)
    \/ \E i \in Ids : ToggleComplete(i)
    \/ StoreCommit
    \/ Render

SpecViews == InitViews /\ [][NextViews]_vars

(* The ids of the incomplete tasks of the list due before, on and after the *)
(* date today.                                                              *)
DueBefore(list, today) ==
    {list[k].id : k \in {n \in 1..Len(list) :
        /\ ~list[n].completed
        /\ list[n].due_date # Null
        /\ DaysFromCivil(list[n].due_date[1], list[n].due_date[2], list[n].due_date[3])
              < DaysFromCivil(today[1], today[2], today[3])}}

DueOn(list, today) ==
    {list[k].id : k \in {n \in 1..Len(list) :
        /\ ~list[n].completed
        /\ list[n].due_date = today}}

DueAfter(list, today) ==
    {list[k].id : k \in {n \in 1..Len(list) :
        /\ ~list[n].completed
        /\ list[n].due_date # Null
        /\ DaysFromCivil(list[n].due_date[1], list[n].due_date[2], list[n].due_date[3])
              > DaysFromCivil(today[1], today[2], today[3])}}

Incomplete(list) == IdsOf(list) \ CompletedIn(list)

C23_ViewPredicates ==
    \A offset \in TzOffsets :
        LET today     == LocalDate(now)
            counts    == TaskCounts(tasks, now, offset)
            Inbox     == FilteredTasks(tasks, "inbox", now, offset)
            Today     == FilteredTasks(tasks, "today", now, offset)
            Upcoming  == FilteredTasks(tasks, "upcoming", now, offset)
            Completed == FilteredTasks(tasks, "completed", now, offset)
        IN  /\ IdsOf(Today) = DueOn(tasks, today)
            /\ IdsOf(Upcoming) = DueAfter(tasks, today)
            /\ IdsOf(Inbox) = Incomplete(tasks)
            /\ IdsOf(Completed) = CompletedIn(tasks)
            /\ counts.inbox = Len(Inbox)
            /\ counts.today = Len(Today)
            /\ counts.upcoming = Len(Upcoming)
            /\ counts.completed = Len(Completed)
            /\ IdsOf(Inbox) \cup IdsOf(Completed) = IdsOf(tasks)
            /\ IdsOf(Inbox) \cap IdsOf(Completed) = {}
            /\ IdsOf(Today) \cap IdsOf(Upcoming) = {}
            /\ IdsOf(Today) \cup IdsOf(Upcoming) \subseteq IdsOf(Inbox)

(* In the zone UTC+10, an incomplete task due on the user's date of today   *)
(* is shown in Upcoming and not in Today.                                   *)
C23_Witness ==
    \E i \in DueOn(tasks, LocalDate(now)) :
        /\ i \in IdsOf(FilteredTasks(tasks, "upcoming", now, -600))
        /\ i \notin IdsOf(FilteredTasks(tasks, "today", now, -600))
        /\ seen = tasks

----------------------------------------------------------------------------
(* C24: the step that invokes the callback for a task leaves its id in the  *)
(* handled set, also when the callback throws; and while the update issued  *)
(* for the task has not settled, the id stays there, unless a render has    *)
(* read the task as completed, and no step invokes the callback for the     *)
(* task again.                                                              *)
C24_InFlightDedup ==
    /\ [][\A i \in Ids :
            fired'[i] # fired[i] => i \in checkedTasksRef' /\ ~AckPending(i)]_vars
    /\ [](\A k \in 1..Len(queue) :
            queue[k] = UpdateOp(queue[k].id, [reminder_shown |-> TRUE]) =>
                queue[k].id \in checkedTasksRef \cup everCompleted)

(* A scan has run at the end of the window on a task that was notified,     *)
(* whose update is still queued and which the list still shows unmarked.    *)
C24_Witness ==
    /\ lastScan = "ran"
    /\ lastCheckTimeRef = now
    /\ seen = tasks
    /\ \E i \in IdsOf(seen) :
          /\ AckPending(i)
          /\ Open(seen, i)
          /\ DueNow(seen, i)
          /\ now = DueTimeMs(TaskOf(seen, i)) + LatenessMs
          /\ i \in checkedTasksRef
          /\ fired[i] = 1

(* Task i was notified and one update was issued for it; the task has been  *)
(* deleted, after that update was applied or before it, in which case the   *)
(* store rejected the update as 'Task not found'.                           *)
Vanished(i) ==
    /\ i < nextId
    /\ i \notin DOMAIN store
    /\ acks[i] = 1
    /\ ~AckPending(i)
    /\ RsFailed(i) => <<i, "reminder_shown", "Task not found">> \in storeFailed

(* C25: a task deleted between its selection and the settling of its        *)
(* update stays out of the store and out of the list, its update is not     *)
(* issued again and it is not notified again.                               *)
C25_NotResurrected ==
    /\ [][\A i \in Ids :
            (\/ i \in DOMAIN store' \ DOMAIN store
             \/ fired'[i] # fired[i]
             \/ acks'[i] # acks[i]) => ~Vanished(i)]_vars
    /\ [](mounted => \A i \in IdsOf(tasks) : ~Vanished(i))

(* The delete of a notified task settled before the task's update, which    *)
(* the store then rejected; a scan has run since on the list without it.    *)
C25_Witness ==
    \E i \in Ids :
        /\ Vanished(i)
        /\ RsFailed(i)
        /\ fired[i] = 1
        /\ queue = <<>>
        /\ mounted
        /\ seen = tasks
        /\ lastScan = "ran"
        /\ lastCheckTimeRef = now

----------------------------------------------------------------------------
(* The ids of the tasks of the list that are eligible at t, in list order. *)
RECURSIVE EligibleIds(_, _, _, _)
EligibleIds(list, k, checked, t) ==
    IF k > Len(list) THEN <<>>
    ELSE IF EligibleWithin(list, list[k].id, checked, t, LatenessMs)
         THEN <<list[k].id>> \o EligibleIds(list, k + 1, checked, t)
         ELSE EligibleIds(list, k + 1, checked, t)

(* C26: a non-throttled scan invokes the callback once and issues one       *)
(* update for every eligible task of its list, the updates in list order,   *)
(* without any of the earlier updates having settled.                       *)
C26_FireAndContinue ==
    [][lastCheckTimeRef' # lastCheckTimeRef /\ reloads' = reloads =>
          LET ids == EligibleIds(seen', 1, checkedTasksRef, now) IN
          /\ \A i \in Range(ids) :
                fired'[i] = fired[i] + 1 /\ acks'[i] = acks[i] + 1
          /\ queue' = queue \o [k \in 1..Len(ids) |->
                                    UpdateOp(ids[k], [reminder_shown |-> TRUE])]]_vars

(* Two tasks were eligible in one scan; the callback threw for the first,   *)
(* no update was issued for it, and the second was not reached.             *)
C26_Witness ==
    /\ lastScan = "threw"
    /\ lastCheckTimeRef = now
    /\ Len(seen) = 2
    /\ \A k \in 1..2 : Open(seen, seen[k].id) /\ DueNow(seen, seen[k].id)
    /\ fired[seen[1].id] = 1
    /\ acks[seen[1].id] = 0
    /\ fired[seen[2].id] = 0
    /\ seen[2].id \notin checkedTasksRef


----------------------------------------------------------------------------
(* C27: the render of a changed task list leaves no completed task of that  *)
(* list in the handled set; whenever the rendered list is the current one,  *)
(* no completed task of it is in the handled set; and within one page an id *)
(* leaves the handled set only in the render of a changed list in which its *)
(* task is completed.                                                       *)
C27_HandledSetRelease ==
    /\ [][dirty /\ seen' = tasks /\ reloads' = reloads =>
             checkedTasksRef' \cap CompletedIn(seen') = {}]_vars
    /\ [](~dirty => checkedTasksRef \cap CompletedIn(seen) = {})
    /\ [][checkedTasksRef' # checkedTasksRef /\ reloads' = reloads =>
             \A i \in checkedTasksRef \ checkedTasksRef' :
                 dirty /\ i \in CompletedIn(seen')]_vars

(* The render of a changed list has just ended in an exception of its scan, *)
(* and a completed task of that list is still in the handled set.           *)
C27_Witness ==
    /\ lastScan = "threw"
    /\ lastCheckTimeRef = now
    /\ ~dirty
    /\ seen = tasks
    /\ checkedTasksRef \cap CompletedIn(seen) # {}

----------------------------------------------------------------------------
(* C28: no step changes the reminder_shown of a task from true to false, in *)
(* the store or in the in-memory list; a task the in-memory list shows as   *)
(* marked is marked in the store; and a task that a scanned list has shown  *)
(* as marked is marked in the store and in every later in-memory list that  *)
(* holds it, also in the list loaded after a reload.                        *)
C28_ShownMonotonic ==
    /\ [][store' # store =>
             \A i \in DOMAIN store \cap DOMAIN store' :
                 store[i].reminder_shown => store'[i].reminder_shown]_vars
    /\ [][tasks' # tasks =>
             \A i \in IdsOf(tasks) \cap IdsOf(tasks') :
                 TaskOf(tasks, i).reminder_shown
                     => TaskOf(tasks', i).reminder_shown]_vars
    /\ [](\A i \in IdsOf(tasks) \cap DOMAIN store :
             TaskOf(tasks, i).reminder_shown => store[i].reminder_shown)
    /\ [](\A i \in everShown :
             /\ i \in DOMAIN store => store[i].reminder_shown
             /\ i \in IdsOf(tasks) => TaskOf(tasks, i).reminder_shown)

(* A completion write and a reminder_shown write for the same task, both    *)
(* made on a rendered list in which the task had neither flag, have both    *)
(* settled: the store and the in-memory list hold the task with both flags. *)
C28_Witness ==
    /\ queue = <<>>
    /\ mounted
    /\ \E i \in IdsOf(seen) \cap IdsOf(tasks) \cap DOMAIN store :
          /\ ~TaskOf(seen, i).completed
          /\ ~TaskOf(seen, i).reminder_shown
          /\ store[i].completed /\ store[i].reminder_shown
          /\ TaskOf(tasks, i) = store[i]
          /\ fired[i] = 1
          /\ acks[i] = 1
          /\ ~RsFailed(i)

----------------------------------------------------------------------------
(* C29: while no store call has failed, whenever the page is mounted and no *)
(* store call is in flight, the in-memory task list is the list of the      *)
(* tasks of the store, newest first, with the field values of the store.    *)
C29_SnapshotConsistent ==
    (mounted /\ queue = <<>>) => tasks = GetAllTasks(store)

(* After a reload the list was loaded from a store holding two tasks, one   *)
(* marked by the pipeline and one completed, and nothing is in flight.      *)
C29_Witness ==
    /\ mounted
    /\ queue = <<>>
    /\ Len(reloads) = 1
    /\ Len(tasks) = 2
    /\ \E i, j \in IdsOf(tasks) :
          /\ TaskOf(tasks, i).reminder_shown /\ acks[i] = 1
          /\ TaskOf(tasks, j).completed

----------------------------------------------------------------------------
(* C30: a store call settles in one of two ways.  Either the store accepts  *)
(* it, and the store and the mounted list change as the call says; or it    *)
(* fails, and then the store, the in-memory list and its rendering state    *)
(* are exactly as before and, for an update, the error is reported to the   *)
(* caller.  A call the store does not accept can only fail.  In both cases  *)
(* the page stays mounted as it was, its timer runs on, and the scanner's   *)
(* state (handled set, deliveries, acknowledgements) is untouched.          *)
C30_FailuresNonFatal ==
    [][queue # <<>> /\ queue' = Tail(queue) /\ reloads' = reloads =>
          LET call == Head(queue)
          IN  /\ mounted' = mounted
              /\ timers' = timers
              /\ seen' = seen
              /\ fired' = fired
              /\ acks' = acks
              /\ checkedTasksRef' = checkedTasksRef
              /\ storeFailed \subseteq storeFailed'
              /\ \/ /\ Accepts(store, call)
                    /\ store' = StoreAfter(store, call, nextId)
                    /\ mounted => tasks' = TasksAfter(tasks, store, call, nextId)
                    /\ storeFailed' = storeFailed
                 \/ /\ store' = store
                    /\ nextId' = nextId
                    /\ tasks' = tasks
                    /\ dirty' = dirty
                    /\ call.op = "update"
                          => <<call.id, What(call)>> \in storeFailed']_vars

(* The pipeline's write and a completion write of a task have both failed:  *)
(* the page is mounted with its timer, nothing is in flight, and the store  *)
(* and the list hold the task unmarked and not completed.                   *)
C30_Witness ==
    /\ mounted
    /\ timers = 1
    /\ queue = <<>>
    /\ tasks = GetAllTasks(store)
    /\ \E i \in DOMAIN store :
          /\ RsFailed(i)
          /\ <<i, "completed">> \in storeFailed
          /\ fired[i] = 1
          /\ ~store[i].reminder_shown
          /\ ~store[i].completed

====
